---- MODULE Spec2Model ----
(***************************************************************************)
(* Model of the projective-dual plotting code: src/src/dualiser.py (Point, *)
(* Point.dual, Points.plot and the bulk plotting functions) and           *)
(* src/src/graphs.py (the concrete point collections).                     *)
(*                                                                         *)
(* Numbers are exact rationals <<num, den>> with den > 0 in lowest terms;  *)
(* <<1, 0>> is math.inf and <<0, 0>> marks a division by zero (Python      *)
(* raises ZeroDivisionError there).  Floating-point rounding is not        *)
(* modelled.  matplotlib is modelled as a recorder: every call made on     *)
(* pyplot is appended to the log of the running call.                      *)
(***************************************************************************)
EXTENDS Integers, Sequences, FiniteSets, TLC

VARIABLES pc, call, log, raised, ret

vars == <<pc, call, log, raised, ret>>

(***************************************************************************)
(* Bounds of the model.                                                    *)
(***************************************************************************)
\* longest sequence of points handed to the bulk plot functions
MaxLen == 3
\* largest CubicCurve(number) constructed
MaxNumber == 3

(***************************************************************************)
(* Exact arithmetic standing for Python's numeric operators.               *)
(***************************************************************************)
Abs(n) == IF n < 0 THEN -n ELSE n

RECURSIVE GCD(_, _)
GCD(a, b) == IF b = 0 THEN a ELSE GCD(b, a % b)

\* the integer n as a number
I(n) == <<n, 1>>

\* math.inf
Inf == <<1, 0>>

\* marker of a raised ZeroDivisionError
ZDE == <<0, 0>>

IsNum(r) == r[2] > 0

Norm(n, d) ==
    LET s == IF d < 0 THEN -1 ELSE 1
        g == GCD(Abs(n), Abs(d))
    IN  <<(s * n) \div g, (s * d) \div g>>

\* unary minus
RNeg(r) == IF IsNum(r) THEN <<-r[1], r[2]>> ELSE ZDE

\* a + b
RAdd(a, b) ==
    IF IsNum(a) /\ IsNum(b) THEN Norm(a[1] * b[2] + b[1] * a[2], a[2] * b[2]) ELSE ZDE

\* a * b
RMul(a, b) ==
    IF IsNum(a) /\ IsNum(b) THEN Norm(a[1] * b[1], a[2] * b[2]) ELSE ZDE

\* a / b, raising ZeroDivisionError when b == 0
RDiv(a, b) ==
    IF IsNum(a) /\ IsNum(b) /\ b[1] # 0 THEN Norm(a[1] * b[2], a[2] * b[1]) ELSE ZDE

\* r == 0
IsZero(r) == r = <<0, 1>>

(***************************************************************************)
(* Point and Point.dual.                                                   *)
(***************************************************************************)
\* Point(x, y, z) with integer coordinates
Point(x, y, z) == [x |-> I(x), y |-> I(y), z |-> I(z)]

\* Point.dual without the test for x == 0
dual_noInfinityBranch(self) ==
    IF IsZero(self.y)
    THEN <<<<RDiv(RNeg(self.z), self.x), I(-1)>>,
           <<RDiv(RNeg(self.z), self.x), I(1)>>>>
    ELSE LET m == RDiv(RNeg(self.x), self.y)
             c == RDiv(RNeg(self.z), self.y)
         IN  <<<<I(-1), RAdd(RNeg(m), c)>>,
               <<I(1), RAdd(m, c)>>>>

\* Point.dual with the sign of the vertical line's abscissa lost
dual_unsignedVertical(self) ==
    IF IsZero(self.y)
    THEN IF IsZero(self.x)
         THEN <<<<Inf, Inf>>, <<Inf, Inf>>>>
         ELSE <<<<RDiv(self.z, self.x), I(-1)>>,
                <<RDiv(self.z, self.x), I(1)>>>>
    ELSE LET m == RDiv(RNeg(self.x), self.y)
             c == RDiv(RNeg(self.z), self.y)
         IN  <<<<I(-1), RAdd(RNeg(m), c)>>,
               <<I(1), RAdd(m, c)>>>>

\* Point.dual (the property): the two 2D points the dual line goes through
dual(self) ==
    IF IsZero(self.y)
    THEN IF IsZero(self.x)
         THEN <<<<Inf, Inf>>, <<Inf, Inf>>>>
         ELSE <<<<RDiv(RNeg(self.z), self.x), I(-1)>>,
                <<RDiv(RNeg(self.z), self.x), I(1)>>>>
    ELSE LET m == RDiv(RNeg(self.x), self.y)
             c == RDiv(RNeg(self.z), self.y)
         IN  <<<<I(-1), RAdd(RNeg(m), c)>>,
               <<I(1), RAdd(m, c)>>>>

(***************************************************************************)
(* Values handed to matplotlib and the record of one call on pyplot.       *)
(***************************************************************************)
\* a str as the sequence of its character codes
str_r == <<114>>
str_g == <<103>>
str_b == <<98>>
str_black == <<98, 108, 97, 99, 107>>
str_rainbow == <<114, 97, 105, 110, 98, 111, 119>>

\* str.casefold() on ASCII text
casefold(s) == [i \in 1..Len(s) |-> IF s[i] \in 65..90 THEN s[i] + 32 ELSE s[i]]

\* a colour given as a str, passed to matplotlib as it is
StrColor(s) == [kind |-> "str", v |-> s]

\* matplotlib.cm.jet(x): the colour at position x of the spectrum
jet(x) == [kind |-> "jet", v |-> x]

NoColor == [kind |-> "none", v |-> <<>>]
NoPair == <<I(0), I(0)>>

Entry(op, p1, p2, color, style, text, opt) ==
    [op |-> op, p1 |-> p1, p2 |-> p2, color |-> color, style |-> style,
     text |-> text, opt |-> opt]

\* plt.scatter(x, y, color=color, s=s)
scatter(x, y, color, s) == Entry("scatter", <<x, y>>, NoPair, color, s, "", "")

\* plt.axline(xy1, xy2, color=color, linewidth=linewidth)
axline(xy1, xy2, color, linewidth) == Entry("axline", xy1, xy2, color, linewidth, "", "")

\* plt.xlim(lo, hi), plt.ylim(lo, hi)
xlim(lim) == Entry("xlim", lim, NoPair, NoColor, I(0), "", "")
ylim(lim) == Entry("ylim", lim, NoPair, NoColor, I(0), "", "")

\* plt.gca().set_aspect(aspect)
set_aspect(aspect) == Entry("set_aspect", NoPair, NoPair, NoColor, I(0), aspect, "")

\* plt.axis("off")
axis(option) == Entry("axis", NoPair, NoPair, NoColor, I(0), option, "")

\* resolution of the saved image
DPI == 1080

\* plt.savefig(path, bbox_inches=0, dpi=1080, format="png")
savefig(path) == Entry("savefig", <<I(0), I(0)>>, NoPair, NoColor, I(DPI), path, "png")

\* print(f"Image saved to {path}")
print(path) == Entry("print", NoPair, NoPair, NoColor, I(0), path, "Image saved to")

\* plt.show()
show == Entry("show", NoPair, NoPair, NoColor, I(0), "", "")

\* entry into a collection's plot_points(size) / plot_duals(width) method
Invoke(method, arg) == Entry(method, NoPair, NoPair, NoColor, arg, "", "")

(***************************************************************************)
(* The per-point and bulk plotting functions of dualiser.py.  Each returns *)
(* the sequence of pyplot calls it makes.                                  *)
(***************************************************************************)
RECURSIVE Flatten(_)
Flatten(ss) == IF ss = <<>> THEN <<>> ELSE Head(ss) \o Flatten(Tail(ss))

\* _plot_point without the test for z != 0
plot_point_unguarded(point, color, s) ==
    <<scatter(RDiv(point.x, point.z), RDiv(point.y, point.z), color, s)>>

\* _plot_point(point, color, s=s)
plot_point(point, color, s) ==
    IF ~IsZero(point.z)
    THEN <<scatter(RDiv(point.x, point.z), RDiv(point.y, point.z), color, s)>>
    ELSE <<>>

\* _plot_dual(point, color=color, linewidth=linewidth)
plot_dual(point, color, linewidth) ==
    <<axline(dual(point)[1], dual(point)[2], color, linewidth)>>

\* np.linspace(0.0, 1.0, num, endpoint=False)
linspace_noEndpoint(num) ==
    [i \in 1..num |-> RDiv(I(i - 1), I(num))]

\* np.linspace(0.0, 1.0, num)
linspace(num) ==
    [i \in 1..num |-> IF num = 1 THEN I(0) ELSE RDiv(I(i - 1), I(num - 1))]

\* plotter(point=point, color=color, **kwargs), the callable given by name
plotter_call(plotter, point, color, kw) ==
    IF plotter = "_plot_point"
    THEN plot_point(point, color, kw)
    ELSE plot_dual(point, color, kw)

\* _plot_rainbow(plotter, points, **kwargs)
plot_rainbow(plotter, points, kw) ==
    LET colors == [i \in 1..Len(points) |-> jet(linspace(Len(points))[i])]
    IN  Flatten([i \in 1..Len(points) |-> plotter_call(plotter, points[i], colors[i], kw)])

\* plot_points(points, color, s=s)
plot_points(points, color, s) ==
    IF casefold(color) = str_rainbow
    THEN plot_rainbow("_plot_point", points, s)
    ELSE Flatten([i \in 1..Len(points) |-> plot_point(points[i], StrColor(color), s)])

\* plot_duals(points, color, linewidth=linewidth)
plot_duals(points, color, linewidth) ==
    IF casefold(color) = str_rainbow
    THEN plot_rainbow("_plot_dual", points, linewidth)
    ELSE Flatten([i \in 1..Len(points) |-> plot_dual(points[i], StrColor(color), linewidth)])

(***************************************************************************)
(* The concrete collections of graphs.py.  A collection is the record of   *)
(* its class and constructor argument; its point lists, bounds and aspect  *)
(* are the values the constructor assigns.                                 *)
(***************************************************************************)
MIN_NUMBER_OF_POINTS == 2

SimpleTriangularGrid == [kind |-> "SimpleTriangularGrid", number |-> 0]

p_points == <<Point(1, -1, 1), Point(-1, 1, 0), Point(-1, 1, 1)>>
q_points == <<Point(1, 3, -3), Point(1, 3, 0), Point(1, 3, 3)>>
r_points == <<Point(4, 0, 3), Point(1, 0, 0), Point(4, 0, -3)>>

\* UnitCircle(roots) for roots = 1, the one instance whose coordinates
\* (cos 0, sin 0, -sin 0) are exact
UnitCircle == [kind |-> "UnitCircle", number |-> 1]

roots_of_unity == <<Point(1, 0, 1)>>
points_at_infinity == <<Point(0, 1, 0)>>

\* CubicCurve(number); the constructor raises ValueError below the minimum
CubicCurve(number) == [kind |-> "CubicCurve", number |-> number]

CubicCurveConstructs(number) == ~(number < MIN_NUMBER_OF_POINTS)

lower == -10
upper == 10

cubic_points(number) ==
    LET diff == upper - lower
        denominator == number - 1
    IN  [k \in 1..number |->
            LET x == RAdd(I(lower), RDiv(I((k - 1) * diff), I(denominator)))
            IN  [x |-> x, y |-> RMul(x, RMul(x, x)), z |-> I(1)]]

x_lim(self) ==
    CASE self.kind = "SimpleTriangularGrid" -> <<I(-2), I(2)>>
      [] self.kind = "UnitCircle" -> <<I(-5), I(5)>>
      [] self.kind = "CubicCurve" -> <<Norm(-3, 2), Norm(3, 2)>>

y_lim(self) ==
    CASE self.kind = "SimpleTriangularGrid" -> <<I(-2), I(2)>>
      [] self.kind = "UnitCircle" -> <<I(-5), I(5)>>
      [] self.kind = "CubicCurve" -> <<Norm(-4, 100), Norm(4, 100)>>

aspect(self) == IF self.kind = "CubicCurve" THEN "auto" ELSE "equal"

\* self.plot_points(size) of each collection
Points_plot_points(self, size) ==
    CASE self.kind = "SimpleTriangularGrid" ->
            plot_points(p_points, str_r, size)
                \o plot_points(q_points, str_g, size)
                \o plot_points(r_points, str_b, size)
      [] self.kind = "UnitCircle" ->
            plot_points(roots_of_unity, str_black, size)
      [] self.kind = "CubicCurve" ->
            plot_points(cubic_points(self.number), str_rainbow, size)

\* self.plot_duals(width) of each collection
Points_plot_duals(self, width) ==
    CASE self.kind = "SimpleTriangularGrid" ->
            plot_duals(p_points, str_r, width)
                \o plot_duals(q_points, str_g, width)
                \o plot_duals(r_points, str_b, width)
      [] self.kind = "UnitCircle" ->
            plot_duals(roots_of_unity, str_black, width)
                \o plot_duals(points_at_infinity, str_rainbow, width)
      [] self.kind = "CubicCurve" ->
            plot_duals(cubic_points(self.number), str_rainbow, width)

(***************************************************************************)
(* Points.plot and its override.  An optional argument is <<>> for None    *)
(* and <<v>> for the value v.                                              *)
(***************************************************************************)
None == <<>>

\* truth value of an optional number: None and 0 are false
Truthy(o) == o # None /\ ~IsZero(o[1])

\* truth value of an optional str: None and "" are false
TruthyStr(o) == o # None /\ o[1] # ""

Outcome(l, r) == [log |-> l, raised |-> r]

\* Points.plot checking its arguments after the canvas setup
Points_plot_lateCheck(self, size, width, save, path) ==
    LET setup == <<xlim(x_lim(self)), ylim(y_lim(self)),
                   set_aspect(aspect(self)), axis("off")>>
        points == IF Truthy(size)
                  THEN <<Invoke("plot_points", size[1])>>
                           \o Points_plot_points(self, size[1])
                  ELSE <<>>
        duals == IF Truthy(width)
                 THEN <<Invoke("plot_duals", width[1])>>
                          \o Points_plot_duals(self, width[1])
                 ELSE <<>>
        drawn == setup \o points \o duals
    IN  IF ~Truthy(size) /\ ~Truthy(width)
        THEN Outcome(setup, "ValueError")
        ELSE IF save
             THEN IF ~TruthyStr(path)
                  THEN Outcome(drawn, "ValueError")
                  ELSE Outcome(drawn \o <<savefig(path[1]), print(path[1]), show>>, "none")
             ELSE Outcome(drawn \o <<show>>, "none")

\* Points.plot presenting the canvas before it saves it
Points_plot_showFirst(self, size, width, save, path) ==
    IF ~Truthy(size) /\ ~Truthy(width)
    THEN Outcome(<<>>, "ValueError")
    ELSE LET setup == <<xlim(x_lim(self)), ylim(y_lim(self)),
                        set_aspect(aspect(self)), axis("off")>>
             points == IF Truthy(size)
                       THEN <<Invoke("plot_points", size[1])>>
                                \o Points_plot_points(self, size[1])
                       ELSE <<>>
             duals == IF Truthy(width)
                      THEN <<Invoke("plot_duals", width[1])>>
                               \o Points_plot_duals(self, width[1])
                      ELSE <<>>
             drawn == setup \o points \o duals \o <<show>>
         IN  IF save
             THEN IF ~TruthyStr(path)
                  THEN Outcome(drawn, "ValueError")
                  ELSE Outcome(drawn \o <<savefig(path[1]), print(path[1])>>, "none")
             ELSE Outcome(drawn, "none")

\* Points.plot(self, size, width, save, path)
Points_plot(self, size, width, save, path) ==
    IF ~Truthy(size) /\ ~Truthy(width)
    THEN Outcome(<<>>, "ValueError")
    ELSE LET setup == <<xlim(x_lim(self)), ylim(y_lim(self)),
                        set_aspect(aspect(self)), axis("off")>>
             points == IF Truthy(size)
                       THEN <<Invoke("plot_points", size[1])>>
                                \o Points_plot_points(self, size[1])
                       ELSE <<>>
             duals == IF Truthy(width)
                      THEN <<Invoke("plot_duals", width[1])>>
                               \o Points_plot_duals(self, width[1])
                      ELSE <<>>
             drawn == setup \o points \o duals
         IN  IF save
             THEN IF ~TruthyStr(path)
                  THEN Outcome(drawn, "ValueError")
                  ELSE Outcome(drawn \o <<savefig(path[1]), print(path[1]), show>>, "none")
             ELSE Outcome(drawn \o <<show>>, "none")

\* CubicCurve.plot(self, size, width, save, path)
CubicCurve_plot(self, size, width, save, path) ==
    IF Truthy(size) /\ Truthy(width)
    THEN Outcome(<<>>, "ValueError")
    ELSE Points_plot(self, size, width, save, path)

(***************************************************************************)
(* Inputs.                                                                 *)
(***************************************************************************)
Sizes == {None, <<I(0)>>, <<I(5)>>}
Widths == {None, <<I(0)>>, <<Norm(3, 4)>>}
Paths == {None, <<"">>, <<"cubic-dual.png">>}

Coords == {-10, -2, -1, 0, 1, 2, 5}
Grid == {Point(x, y, z) : x \in Coords, y \in Coords, z \in Coords}

PointPool ==
    {Point(0, 0, 0), Point(0, 0, 5), Point(5, 0, -10), Point(1, 0, 0),
     Point(1, 1, 0), Point(1, -1, 1), Point(2, 4, 2)}

PointSeqs == UNION {[1..n -> PointPool] : n \in 0..MaxLen}

\* "r", "R", "rainbow", "Rainbow", "RAINBOW"
Colors ==
    {str_r, <<82>>, str_rainbow, <<82, 97, 105, 110, 98, 111, 119>>,
     <<82, 65, 73, 78, 66, 79, 87>>}

Styles == {Norm(3, 4)}

PlainCollections == {SimpleTriangularGrid, UnitCircle}
CubicCurves == {CubicCurve(n) : n \in {m \in 0..MaxNumber : CubicCurveConstructs(m)}}

NoRet == <<NoPair, NoPair>>

Call(op, self, size, width, save, path, points, color, style, point) ==
    [op |-> op, self |-> self, size |-> size, width |-> width, save |-> save,
     path |-> path, points |-> points, color |-> color, style |-> style,
     point |-> point]

PlotCalls(op, colls) ==
    {Call(op, c, s, w, sv, p, <<>>, <<>>, I(0), Point(0, 0, 0)) :
        c \in colls, s \in Sizes, w \in Widths, sv \in BOOLEAN, p \in Paths}

BulkCalls(op) ==
    {Call(op, SimpleTriangularGrid, None, None, FALSE, None, ps, c, st, Point(0, 0, 0)) :
        ps \in PointSeqs, c \in Colors, st \in Styles}

DualCalls ==
    {Call("dual", SimpleTriangularGrid, None, None, FALSE, None, <<>>, <<>>, I(0), pt) :
        pt \in Grid}

Calls ==
    PlotCalls("Points.plot", PlainCollections)
        \cup PlotCalls("CubicCurve.plot", CubicCurves)
        \cup BulkCalls("plot_points") \cup BulkCalls("plot_duals")
        \cup DualCalls

(***************************************************************************)
(* The state machine: a call with its arguments is pending (pc = "ready"), *)
(* and one step runs it to its end (pc = "done"), leaving the pyplot calls *)
(* it made, the exception it raised and the value it returned.             *)
(***************************************************************************)
Init ==
    /\ pc = "ready"
    /\ call \in Calls
    /\ log = <<>>
    /\ raised = "none"
    /\ ret = NoRet

\* a division by zero happened while the value was computed
HasZDE(pair) == ZDE \in {pair[1], pair[2]}
LogHasZDE(l) == \E i \in 1..Len(l) : HasZDE(l[i].p1) \/ HasZDE(l[i].p2)

Finish(out) ==
    /\ pc' = "done"
    /\ log' = out.log
    /\ raised' = out.raised
    /\ UNCHANGED <<call, ret>>

Plot ==
    /\ pc = "ready"
    /\ call.op = "Points.plot"
    /\ Finish(Points_plot(call.self, call.size, call.width, call.save, call.path))

CubicCurvePlot ==
    /\ pc = "ready"
    /\ call.op = "CubicCurve.plot"
    /\ Finish(CubicCurve_plot(call.self, call.size, call.width, call.save, call.path))

Bulk(l) ==
    IF LogHasZDE(l) THEN Outcome(<<>>, "ZeroDivisionError") ELSE Outcome(l, "none")

PlotPoints ==
    /\ pc = "ready"
    /\ call.op = "plot_points"
    /\ Finish(Bulk(plot_points(call.points, call.color, call.style)))

PlotDuals ==
    /\ pc = "ready"
    /\ call.op = "plot_duals"
    /\ Finish(Bulk(plot_duals(call.points, call.color, call.style)))

Dual ==
    /\ pc = "ready"
    /\ call.op = "dual"
    /\ pc' = "done"
    /\ LET d == dual(call.point)
       IN  IF HasZDE(d[1]) \/ HasZDE(d[2])
           THEN raised' = "ZeroDivisionError" /\ ret' = NoRet
           ELSE raised' = "none" /\ ret' = d
    /\ UNCHANGED <<call, log>>

Next == Plot \/ CubicCurvePlot \/ PlotPoints \/ PlotDuals \/ Dual

Spec == Init /\ [][Next]_vars

(***************************************************************************)
(* Vocabulary of the properties.                                           *)
(***************************************************************************)
Done(op) == pc = "done" /\ call.op = op

\* the body of the shared Points.plot ran: called directly, or reached
\* through the override's super().plot(...)
SharedPlotRan ==
    \/ Done("Points.plot")
    \/ Done("CubicCurve.plot") /\ ~(Truthy(call.size) /\ Truthy(call.width))

Where(l, ops) == {i \in 1..Len(l) : l[i].op \in ops}

Drawing == {"plot_points", "plot_duals", "scatter", "axline"}
Setup == <<"xlim", "ylim", "set_aspect", "axis">>

ShowOnceLast(l) ==
    /\ Cardinality(Where(l, {"show"})) = 1
    /\ l[Len(l)].op = "show"

Sentinel == <<<<Inf, Inf>>, <<Inf, Inf>>>>

\* indices of the points with a finite image, in sequence order
Finite(points) ==
    SelectSeq([i \in 1..Len(points) |-> i], LAMBDA i : points[i].z # I(0))

\* a*X + b*Y + c = 0 for the 2D point xy
OnLine(pt, xy) ==
    RAdd(RAdd(RMul(pt.x, xy[1]), RMul(pt.y, xy[2])), pt.z) = I(0)

Scaled(k, pt) == [x |-> RMul(I(k), pt.x), y |-> RMul(I(k), pt.y), z |-> RMul(I(k), pt.z)]
Scales == {-3, -1, 2}

\* the spellings of "rainbow" among the colour inputs
Rainbows ==
    {<<114, 97, 105, 110, 98, 111, 119>>, <<82, 97, 105, 110, 98, 111, 119>>,
     <<82, 65, 73, 78, 66, 79, 87>>}

\* position i/(N-1) of the i-th (0-based) of N points, 0 when N = 1
Position(i, N) == IF N = 1 THEN <<0, 1>> ELSE Norm(i, N - 1)

ExpectedColor(i, N, color) ==
    IF color \in Rainbows
    THEN [kind |-> "jet", v |-> Position(i - 1, N)]
    ELSE [kind |-> "str", v |-> color]

\* the three-branch reference of the dual
Reference(pt) ==
    LET a == pt.x
        b == pt.y
        c == pt.z
    IN  CASE b # I(0) ->
                LET m == RNeg(RDiv(a, b))
                    k == RNeg(RDiv(c, b))
                IN  <<<<I(-1), RAdd(RNeg(m), k)>>, <<I(1), RAdd(m, k)>>>>
          [] b = I(0) /\ a # I(0) ->
                <<<<RNeg(RDiv(c, a)), I(-1)>>, <<RNeg(RDiv(c, a)), I(1)>>>>
          [] b = I(0) /\ a = I(0) -> Sentinel

(***************************************************************************)
(* The claims.                                                             *)
(***************************************************************************)

\* C1: whenever a precondition of the shared Points.plot fails (neither
\* size nor width given, or save requested without a path), the call raises
\* ValueError and no plot_points / plot_duals invocation and no
\* scatter / axline call has happened.
C1_NoDrawingBeforeError ==
    (SharedPlotRan /\ ( \/ call.size = None /\ call.width = None
                        \/ call.save /\ call.path = None ))
        => /\ raised = "ValueError"
           /\ Where(log, Drawing) = {}

\* C2: plot_duals draws exactly one line per point with x != 0 or y != 0
\* and never hands the infinity sentinel to the line-drawing primitive.
C2_SentinelNeverDrawn ==
    Done("plot_duals") =>
        /\ Cardinality(Where(log, {"axline"}))
              = Cardinality({i \in 1..Len(call.points) :
                                call.points[i].x # I(0) \/ call.points[i].y # I(0)})
        /\ \A i \in Where(log, {"axline"}) : <<log[i].p1, log[i].p2>> # Sentinel

\* C3: Point.dual never raises and returns the three-branch reference value
\* for every triple, (0, 0, 0) included; the three worked examples hold.
C3_DualMatchesReference ==
    Done("dual") =>
        /\ raised = "none"
        /\ ret = Reference(call.point)
        /\ call.point = Point(5, 0, -10) => ret = <<<<I(2), I(-1)>>, <<I(2), I(1)>>>>
        /\ call.point = Point(1, 1, 0) => ret = <<<<I(-1), I(1)>>, <<I(1), I(-1)>>>>
        /\ call.point = Point(0, 0, 5) => ret = Sentinel
        /\ call.point = Point(0, 0, 0) => ret = Sentinel

C3_Witness ==
    /\ Done("dual")
    /\ call.point = Point(0, 0, 0)
    /\ raised = "none"
    /\ ret = Sentinel

\* C4: plot with neither size nor width given raises ValueError with no
\* canvas operation performed, on every collection, CubicCurve included.
C4_NothingToDrawRaisesFirst ==
    (/\ pc = "done"
     /\ call.op \in {"Points.plot", "CubicCurve.plot"}
     /\ call.size = None
     /\ call.width = None)
        => /\ raised = "ValueError"
           /\ log = <<>>

C4_Witness ==
    /\ Done("CubicCurve.plot")
    /\ call.size = None
    /\ call.width = None
    /\ call.save
    /\ raised = "ValueError"
    /\ log = <<>>

\* C5: in the shared Points.plot, plot_points(size) is invoked exactly when
\* size is given and plot_duals(width) exactly when width is given, with
\* the supplied value passed unchanged, plot_points before plot_duals and
\* both after the canvas setup.
C5_InvokedExactlyWhenGiven ==
    SharedPlotRan =>
        LET ip == Where(log, {"plot_points"})
            id == Where(log, {"plot_duals"})
        IN  /\ (call.size # None) <=> (ip # {})
            /\ (call.width # None) <=> (id # {})
            /\ \A i \in ip : call.size # None /\ log[i].style = call.size[1]
            /\ \A i \in id : call.width # None /\ log[i].style = call.width[1]
            /\ \A i \in ip : \A j \in id : i < j
            /\ \A i \in ip \cup id :
                  i > Len(Setup) /\ \A k \in 1..Len(Setup) : log[k].op = Setup[k]

\* C6 as stated: every shared Points.plot that passes the step-1 check
\* presents the canvas exactly once, as its last canvas operation, whatever
\* the values of save and path.
C6_AlwaysPresents ==
    (SharedPlotRan /\ (Truthy(call.size) \/ Truthy(call.width)))
        => ShowOnceLast(log)

\* C6 (amended): a shared Points.plot that passes the step-1 check presents
\* the canvas exactly once, as its last canvas operation and after any
\* drawing and save, unless save is requested with the path absent or
\* empty; then it raises ValueError after the drawing and never presents.
C6_PresentsUnlessSaveFails ==
    (SharedPlotRan /\ (Truthy(call.size) \/ Truthy(call.width)))
        => IF call.save /\ ~TruthyStr(call.path)
           THEN /\ raised = "ValueError"
                /\ Where(log, {"show", "savefig"}) = {}
           ELSE /\ raised = "none"
                /\ ShowOnceLast(log)
                /\ call.save => Cardinality(Where(log, {"savefig"})) = 1

C6_Witness ==
    /\ Done("Points.plot")
    /\ Truthy(call.size)
    /\ Truthy(call.width)
    /\ call.save
    /\ TruthyStr(call.path)
    /\ Where(log, {"savefig"}) # {}
    /\ log[Len(log)].op = "show"

\* C7: CubicCurve.plot with both size and width given raises ValueError
\* before any canvas operation; with exactly one of them given it performs
\* exactly the shared Points.plot sequence.
C7_CubicOverridesOnlyPrecondition ==
    Done("CubicCurve.plot") =>
        /\ (call.size # None /\ call.width # None)
              => raised = "ValueError" /\ log = <<>>
        /\ ((call.size # None) # (call.width # None))
              => Outcome(log, raised)
                    = Points_plot(call.self, call.size, call.width, call.save, call.path)

\* C8: bulk plot_points issues one dot per point with z != 0, in sequence
\* order, at (x/z, y/z), nothing for a point with z = 0, and raises no
\* error; plot_duals still computes the dual of a point with z = 0.
C8_FiniteImageSkip ==
    /\ Done("plot_points") =>
          LET kept == Finite(call.points)
          IN  /\ raised = "none"
              /\ Len(log) = Len(kept)
              /\ \A j \in 1..Len(kept) :
                    /\ log[j].op = "scatter"
                    /\ log[j].p1 = <<RDiv(call.points[kept[j]].x, call.points[kept[j]].z),
                                     RDiv(call.points[kept[j]].y, call.points[kept[j]].z)>>
    /\ Done("plot_duals") =>
          /\ raised = "none"
          /\ \A i \in 1..Len(call.points) :
                call.points[i].z = I(0) =>
                    /\ i <= Len(log)
                    /\ log[i].op = "axline"
                    /\ <<log[i].p1, log[i].p2>> = Reference(call.points[i])

C8_Witness ==
    /\ Done("plot_points")
    /\ Len(call.points) = 3
    /\ call.points[2].z = I(0)
    /\ call.points[1].z # I(0)
    /\ call.points[3].z # I(0)
    /\ Len(log) = 2

\* C9: with a "rainbow" colour (any letter case) the i-th of N points gets
\* the colour at position i/(N-1) (0 when N = 1), by its index in the
\* sequence also when other points are skipped; any other colour is
\* applied unchanged to every point.
C9_RainbowByIndex ==
    /\ Done("plot_points") =>
          LET kept == Finite(call.points)
          IN  /\ Len(log) = Len(kept)
              /\ \A j \in 1..Len(kept) :
                    log[j].color = ExpectedColor(kept[j], Len(call.points), call.color)
    /\ Done("plot_duals") =>
          /\ Len(log) = Len(call.points)
          /\ \A i \in 1..Len(log) :
                log[i].color = ExpectedColor(i, Len(call.points), call.color)
    /\ (pc = "done" /\ call.op \in {"plot_points", "plot_duals"}
            /\ call.color \in Rainbows /\ Len(call.points) > 1) =>
          LET N == Len(call.points)
          IN  /\ Position(0, N) = I(0)
              /\ Position(N - 1, N) = I(1)
              /\ \A i, j \in 0..(N - 1) : i # j => Position(i, N) # Position(j, N)

C9_Witness ==
    /\ Done("plot_points")
    /\ call.color = <<82, 65, 73, 78, 66, 79, 87>>
    /\ Len(call.points) = 3
    /\ call.points[2].z = I(0)
    /\ Len(log) = 2
    /\ log[2].color = [kind |-> "jet", v |-> I(1)]

\* C10: for a point (a, b, c) with a != 0 or b != 0 the two returned pairs
\* are distinct, both lie on a*X + b*Y + c = 0, and every nonzero multiple
\* of the triple gives the same pairs.
C10_DualLineIsTheLine ==
    (Done("dual") /\ (call.point.x # I(0) \/ call.point.y # I(0))) =>
        /\ ret[1] # ret[2]
        /\ OnLine(call.point, ret[1])
        /\ OnLine(call.point, ret[2])
        /\ \A k \in Scales : dual(Scaled(k, call.point)) = ret

C10_Witness ==
    /\ Done("dual")
    /\ call.point = Point(2, 0, -10)
    /\ ret = <<<<I(5), I(-1)>>, <<I(5), I(1)>>>>

====
